---- MODULE Spec2Model ----
(***************************************************************************)
(* A model of rest-hapi.js: the plugin's register pipeline (validator     *)
(* setup, configuration merge, schema resolution, registerHapiSwagger,    *)
(* registerMrHorse, generateRoutes), the pre-generation entry point       *)
(* generateModels, and the per-request connection manager (dbConnect /    *)
(* mongooseInit) and model resolver (getConnection / spawnModel /         *)
(* getModel).                                                             *)
(*                                                                         *)
(* Every asynchronous function is cut at its awaits: the code between two *)
(* awaits runs without interruption (one JavaScript job) and is one       *)
(* action; the external promise (modelGenerator, createConnection,        *)
(* server.register, loadPolicies, apiGenerator) resolves or rejects in a  *)
(* later action.                                                          *)
(***************************************************************************)
EXTENDS Naturals, Sequences, FiniteSets, TLC

\* ---------------------------------------------------------------- bounds
\* createConnection calls made over the whole run (each yields one handle)
MaxHandles == 2
\* calls of register over the whole run
MaxRegisters == 2
\* calls of generateModels over the whole run
MaxGenerates == 1

\* ------------------------------------------------------------ value sets
Undefined == "undefined"

\* request contexts (objects the onRequest hook has augmented)
Requests == {"r1", "r2"}

\* connection names callers use; 'default' is the literal of lines 87 and 186
ConnNames == {"default", "secondary"}

\* the schema names modelGenerator builds from the model directory
BuiltSchemas == {"A", "B"}

\* names callers ask getModel for: one that is built, one that never is
ModelNames == {"A", "X"}

\* URIs: the one of the user's options.config.mongo and one a caller overrides with
ConfigURI == "mem://test"
OtherURI == "mem://other"

\* internals.globalSchemas is an object (its keys) or, once register has assigned
\* an unset `schema` to it, undefined
Registry(keys) == [ defined |-> TRUE, keys |-> keys ]
UndefinedRegistry == [ defined |-> FALSE, keys |-> {} ]

\* A file-system path is the sequence of its segments.
\* __dirname of the module when it is installed as a dependency of an application
InstallDir == << "app", "node_modules", "rest-hapi" >>

\* the places the module can be loaded from: installed as a dependency, a working
\* copy outside node_modules, a dependency of a dependency
Dirnames ==
  { InstallDir,
    << "work", "rest-hapi" >>,
    << "app", "node_modules", "rest-hapi", "node_modules", "rest-hapi" >> }

\* An object is a function from the keys it holds to their values; a key that is
\* absent is not in its DOMAIN.
\* config.js is not part of src/: the defaults of the keys the model reads
DefaultConfig ==
  [ mongo              |-> [ defaultConnection |-> "default" ],
    disableSwagger     |-> FALSE,
    enablePolicies     |-> FALSE,
    absolutePolicyPath |-> FALSE,
    policyPath         |-> << "policies" >>,
    appTitle           |-> "rest-hapi API",
    version            |-> "1.0.0",
    swaggerHost        |-> "localhost:8080",
    docExpansion       |-> "list",
    enableSwaggerUI    |-> TRUE,
    enableSwaggerHttps |-> FALSE,
    loglevel           |-> "DEBUG" ]

\* the overrides a user passes as options.config: any subset of these keys
OptionValues ==
  [ mongo          |-> [ defaultConnection |-> "secondary" ],
    disableSwagger |-> TRUE,
    enablePolicies |-> TRUE ]

OptionSet == { [ k \in K |-> OptionValues[k] ] : K \in SUBSET DOMAIN OptionValues }

\* the overrides a caller passes to request.connect(config)
OverrideSet ==
  { << >> } \cup { [ name |-> n ] : n \in ConnNames } \cup { [ URI |-> OtherURI ] }
  \cup { [ name |-> n, URI |-> OtherURI ] : n \in ConnNames }

\* server.realm.validator: unset, the library register installs, one the host
\* application installed before it registered the plugin
NoValidator == "none"
Joi == "Joi"
HostValidator == "HostValidator"

\* the failures of the collaborators
ErrNoSuchFile == "ENOENT: no such file or directory, scandir"
ErrBuild == "schema build failed"
ErrSwagger == "hapi-swagger registration failed"
ErrMrHorse == "mrhorse registration failed"
ErrLoadPolicies == "loadPolicies failed"
ErrApiGenerator == "apiGenerator failed"
BuildErrors == { ErrNoSuchFile, ErrBuild }

\* the order in which for-in walks the object modelGenerator built
SchemaOrder == << "A", "B" >>

VARIABLES
  config,          \* defaultConfig / module.exports.config (one shared object)
  options,         \* options.config of the user (the same object at every register)
  dbConfig,        \* options.config.mongo, the object dbConnect merges into
  modelsGenerated, \* internals.modelsGenerated
  globalSchemas,   \* internals.globalSchemas: a set of names, or Undefined
  hookInstalled,   \* server.ext('onRequest', ...) has run
  reg,             \* the latest register call: pc, local `schema`, the error its
                   \* catch clause caught, the error it threw
  regTrace,        \* the stages the running register call has executed, in order
  regCount,        \* register calls so far
  regDone,         \* register calls that returned without throwing
  genPending,      \* generateModels calls whose modelGenerator promise is pending
  genCount,        \* generateModels calls so far
  buildCalls,      \* invocations of modelGenerator so far
  connections,     \* request.connections of every request the onRequest hook has seen
  pending,         \* connect calls suspended in createConnection
  nextHandle,      \* createConnection calls so far
  ctorCalls,       \* per handle and schema name: calls of connection.model(...)
  validator,       \* server.realm.validator
  joi,             \* module.exports.joi
  dirname,         \* __dirname of the module
  firstRet,        \* per request and name: the handle the connect call that stored the
                   \* entry returned (0: none)
  ret              \* the result of the last completed call

vars == << config, options, dbConfig, modelsGenerated, globalSchemas, hookInstalled,
           reg, regTrace, regCount, regDone, genPending, genCount, buildCalls,
           connections, pending, nextHandle, ctorCalls, firstRet, ret,
           validator, joi, dirname >>

regVars == << config, options, modelsGenerated, globalSchemas, hookInstalled,
              reg, regTrace, regCount, regDone, genPending, genCount, buildCalls,
              validator, joi, dirname >>

connVars == << dbConfig, connections, pending, nextHandle, ctorCalls,
               firstRet, ret >>

hostVars == << validator, joi, dirname >>


\* ------------------------------------------------------- results of calls
\* op: the call; req: its request; name: the schema name asked for; arg: the
\* connection name passed (Undefined: omitted); conn: the connection name the call
\* resolved; kind: what came back ("handle": a driver connection, "entry": a
\* { name, models, connection } record, "model", "error"); h: the handle returned,
\* or the one the entry or model is bound to; inst: which model instance of that
\* handle and name; schema: the schema name the returned model was built from;
\* with: the model carries `with`; baseH: for model.with(d), the
\* handle of the model `with` was called on; warned: Log.warn was called; known:
\* the registry held the schema name when the call was made.
Ret(op, req, name, arg, conn, kind, h, inst, schema, with, baseH, warned, known, err) ==
  [ op |-> op, req |-> req, name |-> name, arg |-> arg, conn |-> conn,
    kind |-> kind, h |-> h, inst |-> inst, schema |-> schema, with |-> with,
    baseH |-> baseH, warned |-> warned, known |-> known, err |-> err ]

NoRet ==
  Ret("none", Undefined, Undefined, Undefined, Undefined, "none", 0, 0, "", FALSE,
      0, FALSE, FALSE, "")

ErrNoConnections == "No database connections found."
ErrNotExists == "Connection does not exists."
ErrTypeError == "TypeError: Cannot read property 'Schema' of undefined"
ErrConnect == "createConnection rejected"
ErrNotAFunction == "TypeError: with is not a function"

\* --------------------------------------------------------------- extend
\* the keys of the configuration whose values are plain objects
ObjectKeys == { "mongo", "swaggerOptions", "info" }

\* mutant: the merge is shallow, a nested object of the source replaces the target's
extendShallow(target, source) ==
  [ k \in DOMAIN target \cup DOMAIN source |->
      IF k \in DOMAIN source THEN source[k] ELSE target[k] ]

\* extend(true, target, source), lines 78, 156, 177: every key of the source is
\* copied into the target; where the source's value is a plain object it is merged,
\* key by key, into the target's object of that name (a new object if the target
\* has none) instead of replacing it.
RECURSIVE extend(_, _)
extend(target, source) ==
  [ k \in DOMAIN target \cup DOMAIN source |->
      IF k \notin DOMAIN source THEN target[k]
      ELSE IF k \in ObjectKeys
      THEN extend(IF k \in DOMAIN target THEN target[k] ELSE << >>, source[k])
      ELSE source[k] ]

\* lines 174-184: getLogger merges module.exports.config, which is the shared
\* configuration object itself, into the shared configuration; what it leaves
getLogger(cfg) == extend(cfg, cfg)

\* ------------------------------------------------------------ dbConnect
\* extend(true, dbConfig, { name: 'default' }, defaultDbConfig), line 87, on the
\* connection parameters, which hold no nested object: keys of the later sources
\* overwrite the target's; a key that is absent or undefined is skipped.
Extend2(target, source) ==
  [ k \in DOMAIN target \cup DOMAIN source |->
      IF k \in DOMAIN source THEN source[k] ELSE target[k] ]

Extend3(cfg, override) == Extend2(Extend2(cfg, [ name |-> "default" ]), override)

\* ------------------------------------------------------------ mongooseInit
\* request.connections is a function from the names it holds to their entries;
\* an entry is { name, models, connection }, connection a handle number.
\* lines 257-260: the name already has an entry with a live handle
HasLiveConnection(conns, name) ==
  /\ name \in DOMAIN conns
  /\ conns[name].connection # 0

\* lines 268-272: the entry stored once createConnection has resolved
NewEntry(name, h) == [ name |-> name, models |-> << >>, connection |-> h ]

\* --------------------------------------------------------- getConnection
\* lines 186-202. `name` Undefined is the omitted argument: the default
\* parameter makes it the literal 'default'.
getConnection(name, conns) ==
  LET nm == IF name = Undefined THEN "default" ELSE name
      key == IF nm # config.mongo.defaultConnection THEN nm
               ELSE config.mongo.defaultConnection
  IN  IF ~HasLiveConnection(conns, key)
      THEN [ ok |-> FALSE, key |-> key,
             err |-> IF nm = config.mongo.defaultConnection
                     THEN ErrNoConnections ELSE ErrNotExists ]
      ELSE [ ok |-> TRUE, key |-> key, err |-> "" ]

\* ------------------------------------------------------------ spawnModel
\* A state transformer over st = [conns, ctor]: conns is request.connections,
\* ctor the per-handle count of connection.model(...) calls. A cached model is
\* { schema, inst, with }: the schema name it was built from, which instance of
\* that handle and name it is, and the schema name its `with` closure holds
\* ("": it has no `with`).
ModelResult(st, ok, err, key, h, model) ==
  [ st |-> st, ok |-> ok, err |-> err, key |-> key, h |-> h, inst |-> model.inst,
    schema |-> model.schema, with |-> model.with ]

NoModel == [ schema |-> "", inst |-> 0, with |-> "" ]

\* mutant: the cache is never consulted
IsCachedNever(entry, name) == FALSE

\* line 220: the cached model is reused when it is truthy
IsCached(entry, name) == name \in DOMAIN entry.models

\* line 223: internals.globalSchemas[name].Schema can be read
SchemaReadable(name) ==
  /\ globalSchemas.defined
  /\ name \in globalSchemas.keys

\* lines 217-229
spawnModel(name, connectionName, st) ==
  LET c == getConnection(connectionName, st.conns)
  IN  IF ~c.ok
      THEN ModelResult(st, FALSE, c.err, c.key, 0, NoModel)
      ELSE
        LET entry == st.conns[c.key]
            h == entry.connection
        IN  IF IsCached(entry, name)
            THEN ModelResult(st, TRUE, "", c.key, h, entry.models[name])
            ELSE IF ~SchemaReadable(name)
            THEN ModelResult(st, FALSE, ErrTypeError, c.key, h, NoModel)
            ELSE
              LET k == st.ctor[h][name] + 1
                  m == [ schema |-> name, inst |-> k, with |-> "" ]
                  e2 == [ entry EXCEPT !.models = (name :> m) @@ entry.models ]
                  st2 == [ conns |-> [ st.conns EXCEPT ![c.key] = e2 ],
                           ctor  |-> [ st.ctor EXCEPT ![h][name] = k ] ]
              IN  ModelResult(st2, TRUE, "", c.key, h, m)

\* -------------------------------------------------------------- getModel
\* mutant: the name is compared with the literal 'default'
DecoratesLiteralDefault(connectionName) == connectionName = "default"

\* line 210: the model gets its `with` when the name is the default connection
Decorates(connectionName) == connectionName = config.mongo.defaultConnection

\* lines 204-215. connectionName Undefined is the omitted argument. Object.assign
\* gives the cached model a `with` closed over this call's name and request.
getModel(name, connectionName, st) ==
  LET cn == IF connectionName = Undefined
            THEN config.mongo.defaultConnection ELSE connectionName
      s == spawnModel(name, cn, st)
  IN  IF ~s.ok THEN s
      ELSE IF Decorates(cn)
      THEN [ s EXCEPT !.st.conns[s.key].models[name].with = name, !.with = name ]
      ELSE s


\* ------------------------------------------------------------------ Init
\* the state after the module is loaded: the defaults are one of C, the user's
\* options.config one of O, the module was loaded from one of D and the host's
\* validator is one of V
InitState(C, O, D, V) ==
  /\ config \in C
  /\ options \in O
  /\ dirname \in D
  /\ validator \in V
  /\ joi = "{}"
  /\ dbConfig = [ URI |-> ConfigURI ]
  /\ modelsGenerated = FALSE
  /\ globalSchemas = Registry({})
  /\ hookInstalled = FALSE
  /\ reg = [ pc |-> "idle", schema |-> UndefinedRegistry, caught |-> "", err |-> "" ]
  /\ regTrace = << >>
  /\ regCount = 0
  /\ regDone = 0
  /\ genPending = 0
  /\ genCount = 0
  /\ buildCalls = 0
  /\ connections = << >>
  /\ pending = {}
  /\ nextHandle = 0
  /\ ctorCalls = [ h \in 1..MaxHandles |-> [ m \in ModelNames |-> 0 ] ]
  /\ firstRet = [ r \in Requests |-> [ n \in ConnNames |-> 0 ] ]
  /\ ret = NoRet

Init == InitState({ DefaultConfig }, OptionSet, { InstallDir }, { NoValidator })

\* ------------------------------------------------------- request actions
\* lines 92-100: the onRequest hook augments a new request
RequestStart(r) ==
  /\ hookInstalled
  /\ r \notin DOMAIN connections
  /\ connections' = (r :> << >>) @@ connections
  /\ UNCHANGED << regVars, dbConfig, pending, nextHandle, ctorCalls,
                  firstRet, ret >>

\* mutant: the entry goes into a map every request shares
StoreTargetsEveryRequest(p) == DOMAIN connections

\* lines 268-272: the request whose connections the new entry is stored in
StoreTargets(p) == { p.req }

\* request.connect(ov): dbConnect (lines 85-90) and mongooseInit up to its await
\* (lines 238-267)
ConnectStart(r, ov) ==
  /\ r \in DOMAIN connections
  /\ LET cfg == Extend3(dbConfig, ov)
     IN  /\ dbConfig' = cfg
         /\ IF HasLiveConnection(connections[r], cfg.name)
            THEN /\ ret' = Ret("connect", r, Undefined, Undefined, cfg.name, "entry",
                               connections[r][cfg.name].connection, 0, "", FALSE,
                               0, TRUE, FALSE, "")
                 /\ UNCHANGED << pending, nextHandle >>
            ELSE /\ nextHandle < MaxHandles
                 /\ nextHandle' = nextHandle + 1
                 /\ pending' = pending \cup
                      { [ id |-> nextHandle + 1, req |-> r, name |-> cfg.name,
                          uri |-> cfg.URI ] }
                 /\ UNCHANGED ret
  /\ UNCHANGED << regVars, connections, ctorCalls, firstRet >>

\* mongoose.createConnection resolves: lines 267-278
ConnectResolve(p) ==
  /\ p \in pending
  /\ pending' = pending \ { p }
  /\ LET name == dbConfig.name
     IN  /\ connections' =
               [ q \in DOMAIN connections |->
                   IF q \in StoreTargets(p)
                   THEN (name :> NewEntry(name, p.id)) @@ connections[q]
                   ELSE connections[q] ]
         /\ firstRet' = [ firstRet EXCEPT ![p.req][name] = p.id ]
         /\ ret' = Ret("connect", p.req, Undefined, Undefined, name, "handle", p.id,
                       0, "", FALSE, 0, FALSE, FALSE, "")
  /\ UNCHANGED << regVars, dbConfig, nextHandle, ctorCalls >>

\* mongoose.createConnection rejects: the error leaves mongooseInit at line 267
ConnectReject(p) ==
  /\ p \in pending
  /\ pending' = pending \ { p }
  /\ ret' = Ret("connect", p.req, Undefined, Undefined, p.name, "error", 0, 0, "",
                FALSE, 0, FALSE, FALSE, ErrConnect)
  /\ UNCHANGED << regVars, dbConfig, connections, nextHandle, ctorCalls,
                  firstRet >>

\* what a getModel call leaves in `ret`
ModelRet(op, r, name, arg, g, baseH) ==
  Ret(op, r, name, arg, g.key, IF g.ok THEN "model" ELSE "error", g.h, g.inst,
      g.schema, g.with # "", baseH, FALSE, SchemaReadable(name), g.err)

\* request.model(name, cn): line 97
GetModel(r, name, cn) ==
  /\ r \in DOMAIN connections
  /\ LET g == getModel(name, cn, [ conns |-> connections[r], ctor |-> ctorCalls ])
     IN  /\ connections' = [ connections EXCEPT ![r] = g.st.conns ]
         /\ ctorCalls' = g.st.ctor
         /\ ret' = ModelRet("model", r, name, cn, g, 0)
  /\ UNCHANGED << regVars, dbConfig, pending, nextHandle, firstRet >>

\* request.model(name).with(d): the closure of line 211, found on the model line
\* 97 returned, calls getModel with the name it holds, on the request it holds
\* (the request whose connection the model is cached in)
With(r, name, d) ==
  /\ r \in DOMAIN connections
  /\ LET g1 == getModel(name, Undefined,
                        [ conns |-> connections[r], ctor |-> ctorCalls ])
         g2 == getModel(g1.with, d, g1.st)
     IN  IF ~g1.ok
         THEN /\ ret' = ModelRet("with", r, name, d, g1, 0)
              /\ UNCHANGED << connections, ctorCalls >>
         ELSE IF g1.with = ""
         THEN /\ ret' = Ret("with", r, name, d, Undefined, "error", 0, 0, "", FALSE,
                            g1.h, FALSE, SchemaReadable(name), ErrNotAFunction)
              /\ connections' = [ connections EXCEPT ![r] = g1.st.conns ]
              /\ ctorCalls' = g1.st.ctor
         ELSE /\ ret' = ModelRet("with", r, name, d, g2, g1.h)
              /\ connections' = [ connections EXCEPT ![r] = g2.st.conns ]
              /\ ctorCalls' = g2.st.ctor
  /\ UNCHANGED << regVars, dbConfig, pending, nextHandle, firstRet >>

\* getConnection(name, request) called on its own: lines 186-202
GetConnection(r, name) ==
  /\ r \in DOMAIN connections
  /\ LET c == getConnection(name, connections[r])
     IN  ret' = Ret("getConnection", r, Undefined, name, c.key,
                    IF c.ok THEN "entry" ELSE "error",
                    IF c.ok THEN connections[r][c.key].connection ELSE 0,
                    0, "", FALSE, 0, FALSE, FALSE, c.err)
  /\ UNCHANGED << regVars, dbConfig, connections, pending, nextHandle, ctorCalls,
                  firstRet >>


\* ------------------------------------------------------------- register
Ev(stage, arg) == [ stage |-> stage, arg |-> arg ]

\* mutant: the catch clause rethrows whatever it caught
IncludesNoSuchFileNever(err) == FALSE

\* mutant: the catch clause swallows whatever it caught
IncludesNoSuchFileAlways(err) == TRUE

\* line 122: err.message.includes('no such file')
IncludesNoSuchFile(err) == err = ErrNoSuchFile

\* mutant: the documentation plugin is registered whatever disableSwagger says
StageAfterSchemaAlwaysSwagger(cfg) == "swagger"

\* lines 136-140: the first plugin registration that follows schema resolution
StageAfterSchema(cfg) == IF ~cfg.disableSwagger THEN "swagger" ELSE "mrhorse"

\* ------------------------------------------------------ registerMrHorse
\* path.join('node_modules', 'rest-hapi'), line 298
ModuleSubpath == << "node_modules", "rest-hapi" >>

\* path.join(__dirname, '/policies'), lines 303 and 316
BuiltInPolicies(dir) == Append(dir, "policies")

\* String.prototype.replace with a string pattern, line 297: the first occurrence
\* of the pattern is replaced, a string without the pattern is returned as it is
Replace(str, pat, by) ==
  LET at == { i \in 1..Len(str) : /\ i + Len(pat) - 1 <= Len(str)
                                  /\ SubSeq(str, i, i + Len(pat) - 1) = pat }
  IN  IF at = {} THEN str
      ELSE LET i == CHOOSE j \in at : \A k \in at : j <= k
           IN  SubSeq(str, 1, i - 1) \o by \o SubSeq(str, i + Len(pat), Len(str))

\* mutant: the policies are taken to be enabled whatever the configuration says
PoliciesEnabledAlways(cfg) == TRUE

\* lines 293 and 314: if (config.enablePolicies)
PoliciesEnabled(cfg) == cfg.enablePolicies

\* lines 291-304: the policyDirectory the mrhorse plugin is registered with
PolicyDirectory(cfg, dir) ==
  IF PoliciesEnabled(cfg)
  THEN IF cfg.absolutePolicyPath = TRUE
       THEN cfg.policyPath
       ELSE Replace(dir, ModuleSubpath, cfg.policyPath)
  ELSE BuiltInPolicies(dir)

\* -------------------------------------------------- registerHapiSwagger
\* mutant: the computed defaults win over the user's documentation options
SpreadFirstWins(a, b) ==
  [ k \in DOMAIN a \cup DOMAIN b |-> IF k \in DOMAIN a THEN a[k] ELSE b[k] ]

\* { ...a, ...b }, line 344: the keys of b replace those of a, whole values
Spread(a, b) ==
  [ k \in DOMAIN a \cup DOMAIN b |-> IF k \in DOMAIN b THEN b[k] ELSE a[k] ]

\* lines 333-340: the options computed from the configuration
ComputedSwaggerOptions(cfg) ==
  [ documentationPath |-> "/",
    host              |-> cfg.swaggerHost,
    expanded          |-> cfg.docExpansion,
    swaggerUI         |-> cfg.enableSwaggerUI,
    documentationPage |-> cfg.enableSwaggerUI,
    schemes           |-> IF cfg.enableSwaggerHttps THEN << "https" >>
                          ELSE << "http" >> ]

\* lines 348-353: info, made if there is none, with title and version forced; it
\* is the object config.swaggerOptions.info itself when the user supplied one
ForcedInfo(cfg, opts) ==
  Spread(IF "info" \in DOMAIN opts THEN opts.info ELSE << >>,
         [ title |-> cfg.appTitle, version |-> cfg.version ])

\* lines 333-354: the options the hapi-swagger plugin is registered with
SwaggerOptions(cfg) ==
  LET opts == IF "swaggerOptions" \in DOMAIN cfg
              THEN Spread(ComputedSwaggerOptions(cfg), cfg.swaggerOptions)
              ELSE ComputedSwaggerOptions(cfg)
  IN  Spread(opts, [ info |-> ForcedInfo(cfg, opts), reuseDefinitions |-> FALSE ])

\* lines 352-353 write title and version into config.swaggerOptions.info when the
\* user's documentation options hold an info object: the configuration after
\* the stage that follows schema resolution has been started
AfterStageStart(cfg) ==
  IF /\ ~cfg.disableSwagger
     /\ "swaggerOptions" \in DOMAIN cfg
     /\ "info" \in DOMAIN cfg.swaggerOptions
  THEN [ cfg EXCEPT !.swaggerOptions.info = ForcedInfo(cfg, cfg.swaggerOptions) ]
  ELSE cfg

\* what the plugin registration of a stage is called with
StagePayload(stage, cfg) ==
  IF stage = "mrhorse" THEN PolicyDirectory(cfg, dirname) ELSE SwaggerOptions(cfg)

\* mutant: the collaborator is handed the one model instead of the schema map
RouteEventsOwnModelOnly(schema) ==
  LET keys == IF schema.defined THEN schema.keys ELSE {}
      walk == SelectSeq(SchemaOrder, LAMBDA k : k \in keys)
  IN  [ i \in 1..Len(walk) |->
          Ev("route", [ model |-> walk[i], models |-> { walk[i] } ]) ]

\* lines 370-374: one restHelper.generateRoutes call per key of `models`, in for-in
\* order, with the model of that key and { models: models }; for-in over undefined
\* runs no iteration
RouteEvents(schema) ==
  LET keys == IF schema.defined THEN schema.keys ELSE {}
      walk == SelectSeq(SchemaOrder, LAMBDA k : k \in keys)
  IN  [ i \in 1..Len(walk) |-> Ev("route", [ model |-> walk[i], models |-> keys ]) ]

\* lines 133-140: the resolved schema is published and the next plugin registered
Publish(schema, cfg, caught, trace) ==
  /\ globalSchemas' = schema
  /\ config' = AfterStageStart(cfg)
  /\ reg' = [ pc |-> StageAfterSchema(cfg), schema |-> schema, caught |-> caught,
              err |-> "" ]
  /\ regTrace' = Append(trace, Ev(StageAfterSchema(cfg),
                                  StagePayload(StageAfterSchema(cfg), cfg)))

Throw(caught, err) ==
  /\ reg' = [ reg EXCEPT !.pc = "thrown", !.caught = caught, !.err = err ]
  /\ UNCHANGED << regTrace, regDone >>

\* mutant: register installs its validation library whatever the host has
NeedsValidatorAlways(v) == TRUE

\* line 68: the host has no validator installed
NeedsValidator(v) == v = NoValidator

\* lines 64-120: register up to its first await
RegisterStart ==
  /\ reg.pc \in { "idle", "done", "thrown" }
  /\ regCount < MaxRegisters
  /\ regCount' = regCount + 1
  /\ IF NeedsValidator(validator)
     THEN validator' = Joi /\ joi' = Joi
     ELSE joi' = validator /\ UNCHANGED validator
  /\ hookInstalled' = TRUE
  /\ LET trace == << Ev("validator", ""), Ev("merge", ""), Ev("hook", ""),
                     Ev("pre", "") >>
         merged == getLogger(extend(config, options))
     IN  IF modelsGenerated
         THEN /\ Publish(globalSchemas, merged, "", Append(trace, Ev("reuse", "")))
              /\ UNCHANGED buildCalls
         ELSE /\ config' = merged
              /\ buildCalls' = buildCalls + 1
              /\ reg' = [ pc |-> "build", schema |-> UndefinedRegistry, caught |-> "",
                          err |-> "" ]
              /\ regTrace' = Append(trace, Ev("build", ""))
              /\ UNCHANGED globalSchemas
  /\ UNCHANGED << options, modelsGenerated, regDone, genPending, genCount, dirname,
                  connVars >>

\* line 120: modelGenerator resolves
BuildResolve ==
  /\ reg.pc = "build"
  /\ Publish(Registry(BuiltSchemas), config, "", regTrace)
  /\ UNCHANGED << options, modelsGenerated, hookInstalled, regCount, regDone,
                  genPending, genCount, buildCalls, hostVars, connVars >>

\* lines 121-130: modelGenerator rejects
BuildReject(err) ==
  /\ reg.pc = "build"
  /\ IF IncludesNoSuchFile(err)
     THEN /\ Publish(UndefinedRegistry, config, err,
                  Append(regTrace, Ev("log-error", "")))
          /\ UNCHANGED regDone
     ELSE /\ Throw(err, err)
          /\ UNCHANGED << config, globalSchemas >>
  /\ UNCHANGED << options, modelsGenerated, hookInstalled, regCount,
                  genPending, genCount, buildCalls, hostVars, connVars >>

\* lines 137-140: server.register of hapi-swagger resolves, mrhorse is registered
SwaggerResolve ==
  /\ reg.pc = "swagger"
  /\ reg' = [ reg EXCEPT !.pc = "mrhorse" ]
  /\ regTrace' = Append(regTrace, Ev("mrhorse", StagePayload("mrhorse", config)))
  /\ UNCHANGED << config, options, modelsGenerated, globalSchemas, hookInstalled,
                  regCount, regDone, genPending, genCount, buildCalls, hostVars, connVars >>

\* lines 305-318 and 142, 365-377: past a resolved await of registerMrHorse
AfterMrHorse(loaded) ==
  IF PoliciesEnabled(config) /\ ~loaded
  THEN /\ reg' = [ reg EXCEPT !.pc = "loadPolicies" ]
       /\ regTrace' = Append(regTrace, Ev("loadPolicies", BuiltInPolicies(dirname)))
  ELSE /\ reg' = [ reg EXCEPT !.pc = "custom" ]
       /\ regTrace' = regTrace \o RouteEvents(reg.schema) \o << Ev("custom", "") >>

MrHorseResolve ==
  /\ reg.pc = "mrhorse"
  /\ AfterMrHorse(FALSE)
  /\ UNCHANGED << config, options, modelsGenerated, globalSchemas, hookInstalled,
                  regCount, regDone, genPending, genCount, buildCalls, hostVars, connVars >>

LoadPoliciesResolve ==
  /\ reg.pc = "loadPolicies"
  /\ AfterMrHorse(TRUE)
  /\ UNCHANGED << config, options, modelsGenerated, globalSchemas, hookInstalled,
                  regCount, regDone, genPending, genCount, buildCalls, hostVars, connVars >>

\* line 142: the promise apiGenerator returned resolves and register returns
CustomResolve ==
  /\ reg.pc = "custom"
  /\ reg' = [ reg EXCEPT !.pc = "done" ]
  /\ regDone' = regDone + 1
  /\ UNCHANGED << config, options, modelsGenerated, globalSchemas, hookInstalled,
                  regTrace, regCount, genPending, genCount, buildCalls, hostVars, connVars >>

\* the error of the awaited stage, as the collaborator raised it
StageError(pc) ==
  CASE pc = "swagger" -> ErrSwagger
    [] pc = "mrhorse" -> ErrMrHorse
    [] pc = "loadPolicies" -> ErrLoadPolicies
    [] pc = "custom" -> ErrApiGenerator

\* lines 137, 140, 142: an awaited plugin registration or hook rejects
StageReject ==
  /\ reg.pc \in { "swagger", "mrhorse", "loadPolicies", "custom" }
  /\ Throw(reg.caught, StageError(reg.pc))
  /\ UNCHANGED << config, options, modelsGenerated, globalSchemas, hookInstalled,
                  regCount, genPending, genCount, buildCalls, hostVars, connVars >>

\* -------------------------------------------------------- generateModels
\* lines 151-162: generateModels up to the promise it returns
GenerateModels ==
  /\ genCount < MaxGenerates
  /\ genCount' = genCount + 1
  /\ modelsGenerated' = TRUE
  /\ config' = getLogger(extend(config, config))
  /\ buildCalls' = buildCalls + 1
  /\ genPending' = genPending + 1
  /\ UNCHANGED << options, globalSchemas, hookInstalled, reg, regTrace, regCount,
                  regDone, hostVars, connVars >>

\* lines 162-166: modelGenerator resolves
GenerateResolve ==
  /\ genPending > 0
  /\ genPending' = genPending - 1
  /\ globalSchemas' = Registry(BuiltSchemas)
  /\ UNCHANGED << config, options, modelsGenerated, hookInstalled, reg, regTrace,
                  regCount, regDone, genCount, buildCalls, hostVars, connVars >>

\* line 162: modelGenerator rejects, the promise generateModels returned rejects
GenerateReject ==
  /\ genPending > 0
  /\ genPending' = genPending - 1
  /\ UNCHANGED << config, options, modelsGenerated, globalSchemas, hookInstalled,
                  reg, regTrace, regCount, regDone, genCount, buildCalls, hostVars, connVars >>

\* ------------------------------------------------------------------ Next
\* the register pipeline, every await resolving or rejecting
RegisterSteps ==
  \/ RegisterStart
  \/ BuildResolve
  \/ \E e \in BuildErrors : BuildReject(e)
  \/ SwaggerResolve
  \/ MrHorseResolve
  \/ LoadPoliciesResolve
  \/ CustomResolve
  \/ StageReject

GenerateSteps ==
  \/ GenerateModels
  \/ GenerateResolve
  \/ GenerateReject

\* what the requests of R do, with the connect overrides of O
RequestSteps(R, O) ==
  \/ \E r \in R : RequestStart(r)
  \/ \E r \in R, ov \in O : ConnectStart(r, ov)
  \/ \E p \in pending : ConnectResolve(p)
  \/ \E p \in pending : ConnectReject(p)
  \/ \E r \in R, m \in ModelNames, cn \in ConnNames \cup { Undefined } :
       GetModel(r, m, cn)
  \/ \E r \in R, m \in ModelNames, d \in ConnNames : With(r, m, d)
  \/ \E r \in R, cn \in ConnNames \cup { Undefined } : GetConnection(r, cn)

\* overrides that name a connection or nothing
NameOverrides == { ov \in OverrideSet : "URI" \notin DOMAIN ov }

\* The registration pipeline and pre-generation on their own, under every
\* combination of options.
InitReg == Init

NextReg == RegisterSteps \/ GenerateSteps

SpecReg == InitReg /\ [][NextReg]_vars

\* One request context after a registration whose schema build resolved, degraded
\* or threw; the options leave the documentation and policy flags at their defaults.
InitConn == Init /\ DOMAIN options \subseteq { "mongo" }

NextConn ==
  \/ RegisterStart
  \/ BuildResolve
  \/ \E e \in BuildErrors : BuildReject(e)
  \/ RequestSteps({ "r1" }, NameOverrides)

SpecConn == InitConn /\ [][NextConn]_vars

\* One request context that lives across registrations: register runs to its end
\* and is called again, so the registry a cached model was built from is replaced.
NextRebuild ==
  \/ RegisterStart
  \/ BuildResolve
  \/ \E e \in BuildErrors : BuildReject(e)
  \/ SwaggerResolve
  \/ MrHorseResolve
  \/ CustomResolve
  \/ RequestStart("r1")
  \/ \E ov \in NameOverrides : ConnectStart("r1", ov)
  \/ \E p \in pending : ConnectResolve(p)
  \/ \E m \in ModelNames, cn \in ConnNames \cup { Undefined } : GetModel("r1", m, cn)

SpecRebuild == InitConn /\ [][NextRebuild]_vars

\* Two request contexts whose connect and model calls interleave.
NextIso ==
  \/ RegisterStart
  \/ BuildResolve
  \/ \E r \in Requests : RequestStart(r)
  \/ \E r \in Requests, ov \in NameOverrides : ConnectStart(r, ov)
  \/ \E p \in pending : ConnectResolve(p)
  \/ \E r \in Requests, cn \in ConnNames \cup { Undefined } : GetModel(r, "A", cn)

SpecIso == InitConn /\ [][NextIso]_vars

\* The registration pipeline under every combination of the policy options and
\* every place the module can be loaded from.
PolicyOptionValues ==
  [ enablePolicies     |-> TRUE,
    absolutePolicyPath |-> TRUE,
    policyPath         |-> << "x", "y" >> ]

PolicyOptionSet ==
  { [ k \in K |-> PolicyOptionValues[k] ] : K \in SUBSET DOMAIN PolicyOptionValues }

InitPolicy == InitState({ DefaultConfig }, PolicyOptionSet, Dirnames, { NoValidator })

NextPolicy ==
  \/ RegisterStart
  \/ BuildResolve
  \/ SwaggerResolve
  \/ MrHorseResolve
  \/ LoadPoliciesResolve
  \/ CustomResolve
  \/ StageReject

SpecPolicy == InitPolicy /\ [][NextPolicy]_vars

\* The configuration merge on its own: the defaults and the user's options.config
\* are each any object that holds some of loglevel, mongo.URI and
\* mongo.defaultConnection (the empty object stands for an absent options.config
\* too: extend skips a source that is undefined).
MergeMongoSet ==
  { [ k \in K |-> IF k = "URI" THEN u ELSE d ] :
      K \in SUBSET { "URI", "defaultConnection" },
      u \in { ConfigURI, OtherURI }, d \in ConnNames }

MergeConfigSet ==
  LET top == { << >> } \cup { [ loglevel |-> l ] : l \in { "DEBUG", "ERROR" } }
  IN  top \cup { [ k \in DOMAIN t \cup { "mongo" } |-> IF k = "mongo" THEN m ELSE t[k] ] :
                   t \in top, m \in MergeMongoSet }

InitMerge == InitState(MergeConfigSet, MergeConfigSet, { InstallDir }, { NoValidator })

NextMerge ==
  \/ RegisterStart
  \/ BuildReject(ErrBuild)

SpecMerge == InitMerge /\ [][NextMerge]_vars

\* Two request contexts whose connect calls override the name, the URI, both or
\* nothing.
NextParams ==
  \/ RegisterStart
  \/ \E r \in Requests : RequestStart(r)
  \/ \E r \in Requests, ov \in OverrideSet : ConnectStart(r, ov)
  \/ \E p \in pending : ConnectResolve(p)
  \/ \E p \in pending : ConnectReject(p)

SpecParams == InitConn /\ [][NextParams]_vars

\* The registration pipeline on a host that has, or has not, installed a
\* validator of its own before it registers the plugin.
InitHost ==
  InitState({ DefaultConfig }, OptionSet, { InstallDir }, { NoValidator, HostValidator })

NextHost == RegisterSteps

SpecHost == InitHost /\ [][NextHost]_vars

\* The registration pipeline under the documentation options: disabled or not,
\* http or https, an application title, and documentation options of the user's
\* own that hold some of host, reuseDefinitions and info.
SwaggerTopValues ==
  [ disableSwagger     |-> TRUE,
    enableSwaggerHttps |-> TRUE,
    appTitle           |-> "My API" ]

UserSwaggerValues ==
  [ host             |-> "api.example.org",
    reuseDefinitions |-> TRUE,
    info             |-> [ title |-> "Mine", version |-> "9", description |-> "docs" ] ]

SwaggerOptionSet ==
  LET tops == { [ k \in K |-> SwaggerTopValues[k] ] :
                  K \in SUBSET DOMAIN SwaggerTopValues }
      users == { [ k \in K |-> UserSwaggerValues[k] ] :
                   K \in SUBSET DOMAIN UserSwaggerValues }
  IN  tops \cup { [ k \in DOMAIN t \cup { "swaggerOptions" } |->
                      IF k = "swaggerOptions" THEN u ELSE t[k] ] :
                    t \in tops, u \in users }

InitSwagger ==
  InitState({ DefaultConfig }, SwaggerOptionSet, { InstallDir }, { NoValidator })

NextSwagger ==
  \/ RegisterStart
  \/ BuildResolve
  \/ \E e \in BuildErrors : BuildReject(e)
  \/ SwaggerResolve
  \/ MrHorseResolve
  \/ CustomResolve
  \/ StageReject

SpecSwagger == InitSwagger /\ [][NextSwagger]_vars

Spec == SpecConn


\* ---------------------------------------------------------------- claims
\* how often the latest register call ran a stage
Count(stage) == Cardinality({ i \in 1..Len(regTrace) : regTrace[i].stage = stage })

LastStage == IF regTrace = << >> THEN "" ELSE regTrace[Len(regTrace)].stage

\* C1: a connect call that finds a live connection under the name it resolved
\* (it logs the warning) returns the identical object that the connect call which
\* opened and stored that connection returned.
C1_SecondConnectReturnsSameObject ==
  (ret.op = "connect" /\ ret.warned)
    => /\ ret.kind = "handle"
       /\ ret.h = firstRet[ret.req][ret.conn]

\* a register call that started after generateModels was invoked
RegisterAfterGenerate ==
  /\ genCount = 1
  /\ regCount = 1
  /\ Count("reuse") = 1

\* C2: over register followed by register, or generateModels followed by
\* register, modelGenerator is invoked exactly once.
C2_BuildAtMostOnce ==
  ((regCount = 2 /\ regDone = 2 /\ genCount = 0) \/ RegisterAfterGenerate)
    => buildCalls = 1

\* C3: once request.connections[n] holds a live handle, no later step replaces
\* that handle or empties its model cache (so at most one driver connection is
\* ever stored per request and name), overlapping connect calls included.
C3_LiveConnectionNeverReplaced ==
  [][ \A r \in DOMAIN connections, n \in ConnNames :
        HasLiveConnection(connections[r], n)
          => /\ HasLiveConnection(connections'[r], n)
             /\ connections'[r][n].connection = connections[r][n].connection
             /\ DOMAIN connections[r][n].models
                  \subseteq DOMAIN connections'[r][n].models ]_vars

\* C4: for every connection handle and schema name the model constructor is
\* invoked at most once, every model a getModel call returns is the one instance
\* that invocation made, and each model cache holds that instance only.
C4_OneBoundModelPerConnection ==
  /\ \A h \in 1..MaxHandles, m \in ModelNames : ctorCalls[h][m] <= 1
  /\ \A r \in DOMAIN connections :
       \A n \in DOMAIN connections[r] :
         \A m \in DOMAIN connections[r][n].models :
           /\ connections[r][n].models[m].inst = 1
           /\ connections[r][n].models[m].schema = m
           /\ ctorCalls[connections[r][n].connection][m] = 1
  /\ (ret.op \in { "model", "with" } /\ ret.kind = "model")
       => /\ ret.inst = 1
          /\ ret.schema = ret.name
          /\ ctorCalls[ret.h][ret.name] = 1

\* two getModel calls in a row on one connection, the second served from the cache
C4_Witness ==
  /\ ret.op = "with"
  /\ ret.kind = "model"
  /\ ret.h = ret.baseH
  /\ ret.inst = 1

\* C5: getModel for a schema name that is absent from the registry fails with an
\* error instead of returning a model.
C5_AbsentSchemaFails ==
  (ret.op = "model" /\ ~ret.known) => ret.kind = "error"

\* C6: getConnection with the name omitted looks up the configured default
\* connection and fails with "No database connections found" when it is missing;
\* a lookup of another name that is missing fails with "does not exist".
C6_OmittedNameIsConfiguredDefault ==
  ret.op = "getConnection"
    => /\ ret.arg = Undefined => ret.conn = config.mongo.defaultConnection
       /\ (ret.arg = Undefined /\ ret.kind = "error") => ret.err = ErrNoConnections
       /\ (ret.arg \notin { Undefined, config.mongo.defaultConnection }
             /\ ret.kind = "error") => ret.err = ErrNotExists

\* C7: a step changes the connection map (model caches included) of no request
\* but the one whose call it completes, and a request starts with an empty map.
C7_RequestIsolation ==
  [][ /\ \A q \in DOMAIN connections :
           connections'[q] # connections[q] => (ret' # ret /\ ret'.req = q)
      /\ \A q \in DOMAIN connections' \ DOMAIN connections :
           connections'[q] = << >> ]_vars

\* both requests hold a connection of their own, and only one has a model cached
C7_Witness ==
  /\ DOMAIN connections = Requests
  /\ \A q \in Requests : HasLiveConnection(connections[q], "default")
  /\ connections["r1"]["default"].connection
       # connections["r2"]["default"].connection
  /\ "A" \in DOMAIN connections["r1"]["default"].models
  /\ "A" \notin DOMAIN connections["r2"]["default"].models

\* the latest register call caught the policy-path-missing build failure
Degraded == reg.caught = ErrNoSuchFile

\* C8: a register call whose schema build fails with 'no such file' logs the
\* diagnostic once, does not throw that error, and goes on: when it returns,
\* documentation registration has run once if enabled (else not at all),
\* policy-engine registration and the custom-route hook once each, and the
\* route-generation collaborator not at all.
C8_DegradedBuildContinues ==
  Degraded
    => /\ Count("log-error") = 1
       /\ reg.err # ErrNoSuchFile
       /\ reg.pc \in { "swagger", "mrhorse", "loadPolicies", "custom", "done",
                       "thrown" }
       /\ reg.pc = "thrown" => reg.err = StageError(LastStage)
       /\ Count("route") = 0
       /\ reg.pc = "done"
            => /\ Count("swagger") = IF config.disableSwagger THEN 0 ELSE 1
               /\ Count("mrhorse") = 1
               /\ Count("custom") = 1

C8_Witness ==
  /\ Degraded
  /\ reg.pc = "done"
  /\ Count("swagger") = 1

\* the stages of the pipeline that are awaited
AwaitedStages == { "build", "swagger", "mrhorse", "loadPolicies", "custom" }

C10_WithAlwaysReturnsModel ==
  (ret.op = "with" /\ ret.baseH # 0 /\ ret.arg = "secondary") => ret.kind = "model"

\* C10 amended: a model returned for an omitted or default connection name
\* carries `with`; model.with(d) gives what getModel(name, d, ctx) gives: the
\* one model of schema `name` cached in the live connection stored under d,
\* another connection than the default's when d is not the default, and the
\* "does not exist" error when the request holds no live connection d (`with`
\* opens none).
C10_WithResolvesExistingConnection ==
  /\ (ret.op = "model" /\ ret.kind = "model"
        /\ ret.arg \in { Undefined, config.mongo.defaultConnection }) => ret.with
  /\ ret.err # ErrNotAFunction
  /\ (ret.op = "with" /\ ret.baseH # 0)
       => /\ ret.conn = ret.arg
          /\ ret.kind = "model"
               => /\ ret.h # 0
                  /\ ret.schema = ret.name
                  /\ ret.inst = 1
                  /\ (ret.arg # config.mongo.defaultConnection) = (ret.h # ret.baseH)
                  /\ ret.with = (ret.arg = config.mongo.defaultConnection)
          /\ (ret.kind = "error" /\ ret.h = 0)
               => /\ ret.err = ErrNotExists
                  /\ ret.arg # config.mongo.defaultConnection
          /\ (ret.kind = "error" /\ ret.h # 0) => (ret.err = ErrTypeError /\ ~ret.known)

C10_Witness ==
  /\ ret.op = "with"
  /\ ret.kind = "model"
  /\ ret.arg = "secondary"
  /\ ret.h # ret.baseH
  /\ ret.baseH # 0

\* the module's install path holds node_modules/rest-hapi at segment j
Occurs(j) ==
  /\ j + 1 <= Len(dirname)
  /\ dirname[j] = "node_modules"
  /\ dirname[j + 1] = "rest-hapi"

\* C11: the policy directory the policy-engine plugin is registered with is the
\* module's built-in directory when enablePolicies is false, config.policyPath
\* itself when enablePolicies and absolutePolicyPath are true, and otherwise the
\* install path with its (first) node_modules/rest-hapi replaced by policyPath
\* (the install path itself when it holds none); the built-in policies are loaded
\* if and only if enablePolicies is true, once, from the built-in directory, and
\* only after the plugin registration has resolved.
C11_PolicyDirectory ==
  /\ \A i \in 1..Len(regTrace) :
       regTrace[i].stage = "mrhorse"
         => LET dir == regTrace[i].arg
            IN  /\ ~config.enablePolicies => dir = dirname \o << "policies" >>
                /\ (config.enablePolicies /\ config.absolutePolicyPath)
                     => dir = config.policyPath
                /\ (config.enablePolicies /\ ~config.absolutePolicyPath)
                     => \/ \E j \in 1..Len(dirname) :
                             /\ Occurs(j)
                             /\ \A k \in 1..(j - 1) : ~Occurs(k)
                             /\ dir = SubSeq(dirname, 1, j - 1) \o config.policyPath
                                        \o SubSeq(dirname, j + 2, Len(dirname))
                        \/ /\ \A j \in 1..Len(dirname) : ~Occurs(j)
                           /\ dir = dirname
  /\ Count("mrhorse") <= 1
  /\ Count("loadPolicies") <= 1
  /\ \A i \in 1..Len(regTrace) :
       regTrace[i].stage = "loadPolicies"
         => /\ config.enablePolicies
            /\ regTrace[i].arg = dirname \o << "policies" >>
            /\ i > 1 /\ regTrace[i - 1].stage = "mrhorse"
  /\ reg.pc = "mrhorse" => Count("loadPolicies") = 0
  /\ reg.pc \in { "custom", "done" }
       => (Count("loadPolicies") = 1) = config.enablePolicies

\* policies enabled with a relative path: the registration used the application's
\* directory and the built-in policies were loaded afterwards
C11_Witness ==
  /\ reg.pc = "done"
  /\ dirname = InstallDir
  /\ \E i \in 1..Len(regTrace) :
       /\ regTrace[i].stage = "mrhorse"
       /\ regTrace[i].arg = << "app", "x", "y" >>
  /\ Count("loadPolicies") = 1

\* the leaves of a configuration: the path of each with its value
Leaves(c) ==
  { << << k >>, c[k] >> : k \in DOMAIN c \ ObjectKeys }
  \cup UNION { { << << k, j >>, c[k][j] >> : j \in DOMAIN c[k] } :
                 k \in DOMAIN c \cap ObjectKeys }

Paths(c) == { l[1] : l \in Leaves(c) }

\* C12: the merge register makes is idempotent and override-wins: merging the
\* same override again (within the call, or by a second register) leaves the
\* configuration as the first merge left it, every leaf of the override is in
\* the configuration afterwards with the override's value, every leaf of the
\* configuration that the override does not hold keeps its value, no other leaf
\* appears, and an empty override changes nothing.
C12_MergeIdempotentOverrideWins ==
  [][ regCount' > regCount
        => /\ extend(config', options) = config'
           /\ regCount >= 1 => config' = config
           /\ Leaves(options) \subseteq Leaves(config')
           /\ \A l \in Leaves(config) :
                l[1] \notin Paths(options) => l \in Leaves(config')
           /\ Leaves(config') \subseteq Leaves(config) \cup Leaves(options)
           /\ options = << >> => config' = config ]_vars

\* a nested object of the override was merged into the default's: mongo holds the
\* override's URI next to a defaultConnection only the defaults held, after the
\* merge was made twice
C12_Witness ==
  /\ regCount = 2
  /\ "mongo" \in DOMAIN options
  /\ DOMAIN options.mongo = { "URI" }
  /\ "loglevel" \in DOMAIN options
  /\ DOMAIN config.mongo = { "URI", "defaultConnection" }
  /\ config.mongo.URI = options.mongo.URI
  /\ config.loglevel = options.loglevel

\* the parameters a connect call with override ov resolves from the configured
\* defaults: options.config.mongo as the user passed it, the { name: 'default' }
\* fallback, and ov
OwnParams(ov) == Extend3([ URI |-> ConfigURI ], ov)

\* C13: whatever connect calls came before, a connect call resolves the name and
\* the URI given by the configured defaults and its own override alone: the
\* connection it opens is opened with that URI under that name, and the one it
\* reuses is the one of that name.
C13_ConnectUsesConfiguredDefaults ==
  [][ \A r \in Requests, ov \in OverrideSet :
        ConnectStart(r, ov)
          => /\ \A p \in pending' \ pending :
                  /\ p.name = OwnParams(ov).name
                  /\ p.uri = OwnParams(ov).URI
             /\ pending' = pending => ret'.conn = OwnParams(ov).name ]_vars

\* C14: when createConnection resolves for a connect call, the connection is
\* stored in its request's map under the name the call resolved when it was
\* invoked, with a `name` field equal to that key, and under no other key,
\* whatever connect calls started while it was suspended.
C14_StoredUnderResolvedName ==
  [][ \A p \in pending :
        ConnectResolve(p)
          => /\ p.name \in DOMAIN connections'[p.req]
             /\ connections'[p.req][p.name] = NewEntry(p.name, p.id)
             /\ \A n \in DOMAIN connections'[p.req] \ { p.name } :
                  /\ n \in DOMAIN connections[p.req]
                  /\ connections'[p.req][n] = connections[p.req][n] ]_vars

\* C15: a register call that took the reuse path (the 'models already generated'
\* flag was set) proceeds with the registry of a completed build and generates
\* the routes of each of its schemas, also when generateModels' build was still
\* pending, or had rejected, when register ran.
C15_ReuseTakesCompletedBuild ==
  Count("reuse") = 1
    => /\ reg.schema = Registry(BuiltSchemas)
       /\ reg.pc \in { "custom", "done" }
            => Count("route") = Cardinality(BuiltSchemas)

\* C16: whatever mongo.defaultConnection is configured, once a request holds the
\* live connection a connect call without a name stored (the one under the
\* 'default' that dbConnect falls back to), getModel without a connection name
\* succeeds for a schema of the registry and is bound to that connection.
C16_DefaultConnectionAgrees ==
  [][ \A r \in Requests, m \in ModelNames :
        ( /\ GetModel(r, m, Undefined)
          /\ HasLiveConnection(connections[r], "default")
          /\ SchemaReadable(m) )
          => /\ ret'.kind = "model"
             /\ ret'.h = connections[r]["default"].connection ]_vars

\* the place of an executed step in the pipeline of register: 1 validator setup,
\* 2 configuration merge, 3 request-hook installation, 4 pre-hook capture,
\* 5 schema resolution, 6 documentation registration, 7 policy-engine
\* registration, 8 route generation
StageNo(stage) ==
  CASE stage = "validator" -> 1
    [] stage = "merge" -> 2
    [] stage = "hook" -> 3
    [] stage = "pre" -> 4
    [] stage \in { "reuse", "build", "log-error" } -> 5
    [] stage = "swagger" -> 6
    [] stage \in { "mrhorse", "loadPolicies" } -> 7
    [] stage \in { "route", "custom" } -> 8

\* the steps of the latest register call are in pipeline order without a gap
\* (documentation registration left out exactly when it is disabled)
InPipelineOrder ==
  /\ regTrace # << >> => StageNo(regTrace[1].stage) = 1
  /\ \A i \in 1..(Len(regTrace) - 1) :
       LET a == StageNo(regTrace[i].stage)
           b == StageNo(regTrace[i + 1].stage)
       IN  \/ b = a + 1 /\ (b = 6 => ~config.disableSwagger)
           \/ b = a /\ a \in { 5, 7, 8 }
           \/ a = 5 /\ b = 7 /\ config.disableSwagger
  /\ \A st \in { "validator", "merge", "hook", "pre", "reuse", "build", "swagger",
                  "mrhorse", "loadPolicies", "custom" } : Count(st) <= 1
  /\ Count("reuse") + Count("build") <= 1
  /\ Count("custom") = 1 => LastStage = "custom"
  /\ reg.pc \in AwaitedStages => LastStage = reg.pc
  /\ reg.pc = "done" => LastStage = "custom"

\* C17: every register call runs validator setup, configuration merge,
\* request-hook installation, pre-hook capture, schema resolution, documentation
\* registration (if and only if it is not disabled), policy-engine registration
\* and route generation in that order, none left out in a call that returns; and
\* a step is only ever taken once the awaited stage before it has resolved.
C17_StagesInOrder ==
  [][ /\ InPipelineOrder'
      /\ (regCount' = regCount /\ regTrace' # regTrace)
           => /\ reg.pc \in AwaitedStages
              /\ LastStage = reg.pc
              /\ Len(regTrace') > Len(regTrace)
              /\ SubSeq(regTrace', 1, Len(regTrace)) = regTrace ]_vars

\* a register call that returned with documentation disabled: no documentation
\* registration, every other stage run, routes for both schemas
C17_Witness ==
  /\ reg.pc = "done"
  /\ config.disableSwagger
  /\ Count("swagger") = 0
  /\ Count("mrhorse") = 1
  /\ Count("loadPolicies") = 1
  /\ Count("route") = 2

\* the steps of one kind in the latest register call, in order
Events(stage) == SelectSeq(regTrace, LAMBDA e : e.stage = stage)

\* C18: once register has reached the custom-route hook (and so when it
\* returns), the route-generation collaborator has been invoked exactly once for
\* each schema name of the resolved registry and for no other name, each time
\* with the whole schema map, and the custom-route hook exactly once, after all
\* of them; before that point neither has been invoked.
C18_RoutesOncePerSchema ==
  LET routes == Events("route")
      keys == IF reg.schema.defined THEN reg.schema.keys ELSE {}
  IN  /\ reg.pc \in { "custom", "done" }
           => /\ { routes[i].arg.model : i \in 1..Len(routes) } = keys
              /\ Len(routes) = Cardinality(keys)
              /\ \A i \in 1..Len(routes) : routes[i].arg.models = keys
              /\ Count("custom") = 1
              /\ LastStage = "custom"
              /\ \A i \in 1..(Len(regTrace) - 1) : regTrace[i].stage # "custom"
      /\ reg.pc \in { "build", "swagger", "mrhorse", "loadPolicies" }
           => Len(routes) = 0 /\ Count("custom") = 0

\* a register call that reused the registry generateModels built returned after
\* generating the routes of both schemas
C18_Witness ==
  /\ reg.pc = "done"
  /\ Count("reuse") = 1
  /\ Len(Events("route")) = 2
  /\ Events("route")[1].arg.model # Events("route")[2].arg.model

\* C19: register installs its validation library on the host only when the host
\* has no validator, and no step ever replaces a validator the host has; after
\* every register call the exported joi is the host's validator.
C19_ValidatorInstalledOnce ==
  [][ /\ validator # NoValidator => validator' = validator
      /\ validator = NoValidator => validator' \in { NoValidator, Joi }
      /\ regCount' > regCount => validator' # NoValidator
      /\ regCount' >= 1 => joi' = validator' ]_vars

\* two register calls on a host that brought its own validator
C19_Witness ==
  /\ regCount = 2
  /\ validator = HostValidator
  /\ joi = HostValidator

\* the documentation options of the user, as the merged configuration holds them
UserSwaggerOptions ==
  IF "swaggerOptions" \in DOMAIN config THEN config.swaggerOptions ELSE << >>

\* the documentation plugin was registered, in the latest register call, if and
\* only if disableSwagger is false
SwaggerIffEnabled ==
  /\ Count("swagger") <= 1
  /\ Count("swagger") = 1 => ~config.disableSwagger
  /\ (reg.pc \in { "swagger", "mrhorse", "loadPolicies", "custom", "done" }
        /\ ~config.disableSwagger) => Count("swagger") = 1

\* info.title and info.version are those of the configuration; the other keys
\* of a user-supplied info are the user's
InfoForced(o) ==
  /\ o.info.title = config.appTitle
  /\ o.info.version = config.version
  /\ "info" \in DOMAIN UserSwaggerOptions
       => \A k \in DOMAIN UserSwaggerOptions.info \ { "title", "version" } :
            o.info[k] = UserSwaggerOptions.info[k]

\* C20 as stated: every key of config.swaggerOptions overrides the computed
\* default for that key, info.title and info.version alone excepted.
C20_EverySuppliedKeyOverrides ==
  /\ SwaggerIffEnabled
  /\ \A i \in 1..Len(regTrace) :
       regTrace[i].stage = "swagger"
         => LET o == regTrace[i].arg
            IN  /\ \A k \in DOMAIN UserSwaggerOptions \ { "info" } :
                     o[k] = UserSwaggerOptions[k]
                /\ InfoForced(o)

\* C20 amended: the documentation plugin is registered if and only if
\* disableSwagger is false; every key of config.swaggerOptions overrides the
\* computed default for that key, except that info.title and info.version are
\* always config.appTitle and config.version and reuseDefinitions is always
\* false; a key the user does not supply has its computed default.
C20_SuppliedKeysOverrideExceptForced ==
  /\ SwaggerIffEnabled
  /\ \A i \in 1..Len(regTrace) :
       regTrace[i].stage = "swagger"
         => LET o == regTrace[i].arg
            IN  /\ \A k \in DOMAIN UserSwaggerOptions \ { "info", "reuseDefinitions" } :
                     o[k] = UserSwaggerOptions[k]
                /\ InfoForced(o)
                /\ o.reuseDefinitions = FALSE
                /\ "host" \notin DOMAIN UserSwaggerOptions => o.host = config.swaggerHost
                /\ o.schemes = IF config.enableSwaggerHttps THEN << "https" >>
                                ELSE << "http" >>
                /\ o.documentationPath = "/"

\* the plugin was registered with the user's host and the user's info, whose
\* title was replaced by the configured application title
C20_Witness ==
  /\ reg.pc = "done"
  /\ DOMAIN UserSwaggerOptions = { "host", "reuseDefinitions", "info" }
  /\ UserSwaggerOptions.reuseDefinitions = TRUE
  /\ \E i \in 1..Len(regTrace) :
       /\ regTrace[i].stage = "swagger"
       /\ regTrace[i].arg.host = "api.example.org"
       /\ regTrace[i].arg.info.title = "My API"
       /\ regTrace[i].arg.info.description = "docs"
       /\ regTrace[i].arg.reuseDefinitions = FALSE

====
